---- MODULE Spec2Model ----
(***************************************************************************)
(* A model of rbittorrent: the peer-wire message framer (src/peer.rs),     *)
(* the bencode decoder (src/de.rs) and the download-piece session          *)
(* (src/main.rs).  Each part has its own specification over the shared     *)
(* variables; the variables of the parts a specification does not run      *)
(* keep their idle values.                                                 *)
(***************************************************************************)
EXTENDS Integers, Sequences, FiniteSets, TLC

VARIABLES
    \* ---- MessageFramer (src/peer.rs) ----
    wire,       \* the byte stream the transport delivers
    srcWhole,   \* BytesMut of the framer that got the whole stream at once
    outWhole,   \* messages it has returned so far
    stWhole,    \* "decoding" | "none" (Ok(None)) | "err"
    fed,        \* number of bytes of wire appended to srcByte so far
    srcByte,    \* BytesMut of the framer that is fed one byte at a time
    outByte,    \* messages it has returned so far
    stByte,     \* "need" | "decoding" | "err"
    errWhole,   \* the error the whole-stream framer returned, "-" if none
    errByte,    \* the error the bytewise framer returned, "-" if none
    call,       \* the most recent decode call: its buffer and its result
    \* ---- Command::Decode (src/main.rs, src/de.rs) ----
    msg,        \* the string given to decode_cmd, a sequence of characters
    origin,     \* the value msg is the encoding of, NoValue for any other string
    first,      \* what decode_bencoded_value(msg) returned, Pending before the call
    result,     \* what decode_cmd(msg) returned, Pending before the call
    shape,      \* how msg was made: typed, the encoding of a value, or one cut or spoiled
    \* ---- Command::DownloadPiece (src/main.rs) ----
    env,        \* "honest": the peer and the transport of a good run; "any": anything
    torrent,    \* the parsed metainfo: total length, piece length, piece hashes
    piece_index,\* the index of the piece to download
    pc,         \* the statement main is at
    outcome,    \* "running" | "complete" | "panic" | "error" (main returned Err)
    handshake,  \* the 68 bytes read back: length, bittorrent, info_hash
    sent,       \* the messages given to stream.send, in order
    rx,         \* what the latest stream.next() returned
    rxCount,    \* the number of stream.next() calls that have returned
    piece_size, \* the size computed for the piece
    nblocks,    \* the number of blocks of the piece
    block_idx,  \* the block the loop is at
    block_size, \* the length asked for in the latest Request
    all_blocks, \* the bytes accumulated so far
    output,     \* the bytes written to the output file, NoOutput before the write
    \* ---- MessageFramer::encode (src/peer.rs) ----
    encItem,    \* the message given to encode
    encDst,     \* the destination buffer before the call
    encOut,     \* the destination buffer after the call
    encRes,     \* "pending" before the call, then "ok" or "err"
    \* ---- MessageFramer, encode then decode (src/peer.rs) ----
    rtItems,    \* the messages given to the sink, in order
    rtEncoded,  \* the number of them encoded so far
    rtBuf,      \* the buffer encode appends to and decode reads from
    rtOut,      \* the messages decode has returned so far
    rtRes       \* "open" | "drained" (Ok(None), all encoded) | "err"

framerVars == <<wire, srcWhole, outWhole, stWhole, fed, srcByte, outByte, stByte,
               errWhole, errByte, call>>

benVars == <<msg, origin, first, result, shape>>

dlVars == <<env, torrent, piece_index, pc, outcome, handshake, sent, rx, rxCount,
           piece_size, nblocks, block_idx, block_size, all_blocks, output>>

encVars == <<encItem, encDst, encOut, encRes>>

rtVars == <<rtItems, rtEncoded, rtBuf, rtOut, rtRes>>

vars == <<framerVars, benVars, dlVars, encVars, rtVars>>

----------------------------------------------------------------------------
(* Bounds of the model *)

\* number of chunks a modelled byte stream is concatenated from
MaxChunks == 3

\* length of the longest string given to decode_cmd as typed text
MaxMsgLen == 5

\* most elements of a list, and most keys of a dictionary, of a modelled value
MaxItems == 2

\* most tokens of a string given to decode_cmd as a run of bencode tokens
MaxTokens == 4

\* most characters after the colon of a typed byte string
MaxData == 3

\* most messages given to the sink of one encode-then-decode run
MaxMessages == 2

\* longest content, in bytes, of the short torrents of the sessions
MaxLength == 6

\* longest piece, in bytes, of the short torrents of the sessions
MaxPieceLength == 3

----------------------------------------------------------------------------
(* Bytes and big-endian u32 *)

Pow2(n) == 2 ^ n

\* u32::to_be_bytes (every number of the model is below 2^31, so the cast
\* `as u32` that precedes it in the source changes nothing here)
to_be_bytes(n) ==
    << (n \div Pow2(24)) % 256, (n \div Pow2(16)) % 256, (n \div Pow2(8)) % 256, n % 256 >>

\* u32::from_be_bytes
from_be_bytes(b) == b[1] * Pow2(24) + b[2] * Pow2(16) + b[3] * Pow2(8) + b[4]

\* src.advance(n): the buffer without its first n bytes
advance(src, n) == SubSeq(src, n + 1, Len(src))

----------------------------------------------------------------------------
(* MessageTag and Message (src/peer.rs) *)

\* mutant: the bytes 0 and 1 give each other's tag
MessageTag_swapped ==
    [ t \in 0..8 |->
        CASE t = 0 -> "Unchoke"
          [] t = 1 -> "Choke"
          [] t = 2 -> "Interested"
          [] t = 3 -> "NotInterested"
          [] t = 4 -> "Have"
          [] t = 5 -> "Bitfield"
          [] t = 6 -> "Request"
          [] t = 7 -> "Piece"
          [] t = 8 -> "Cancel" ]

\* impl TryFrom<u8> for MessageTag: the tags 0..=8 and their names
MessageTag ==
    [ t \in 0..8 |->
        CASE t = 0 -> "Choke"
          [] t = 1 -> "Unchoke"
          [] t = 2 -> "Interested"
          [] t = 3 -> "NotInterested"
          [] t = 4 -> "Have"
          [] t = 5 -> "Bitfield"
          [] t = 6 -> "Request"
          [] t = 7 -> "Piece"
          [] t = 8 -> "Cancel" ]

\* MessageTag::try_from(value).is_ok()
try_from_ok(value) == value \in DOMAIN MessageTag

\* `tag as u8`: the discriminant of a tag name
tag_as_u8(name) == CHOOSE t \in DOMAIN MessageTag : MessageTag[t] = name

\* Message::len
MessageLen(item) == 1 + Len(item.payload)

----------------------------------------------------------------------------
(* MessageFramer::decode (src/peer.rs) *)

\* const MAX in decode
DecodeMAX == 65536

NoMsg == [tag |-> "-", payload |-> <<>>]

\* mutant: need-more-data that drops the bytes buffered so far
OkNone_cleared(src) == [res |-> "none", err |-> "-", msg |-> NoMsg, src |-> <<>>]
\* Ok(None)
OkNone(src) == [res |-> "none", err |-> "-", msg |-> NoMsg, src |-> src]
\* Ok(Some(msg))
OkSome(item, src) == [res |-> "msg", err |-> "-", msg |-> item, src |-> src]
\* Err(io::Error::new(InvalidData, ..))
Err(what, src) == [res |-> "err", err |-> what, msg |-> NoMsg, src |-> src]

\* mutant: the ceiling rejects a frame of exactly MAX bytes
FrameTooLarge_inclusive(length) == length >= DecodeMAX

\* `if length > MAX`
FrameTooLarge(length) == length > DecodeMAX

RECURSIVE decode(_)

\* mutant: a heartbeat is discarded and the call reports need-more-data
Heartbeat_no_retry(src) == OkNone(advance(src, 4))

\* mutant: a heartbeat takes the byte after it with it
Heartbeat_five(src) == decode(advance(src, 5))

\* `if length == 0 { src.advance(4); return self.decode(src); }`
Heartbeat(src) == decode(advance(src, 4))

\* the complete frame at the head of src: tag, payload, advance, tag conversion
TakeFrame(src, length) ==
    LET tag  == src[5]
        data == SubSeq(src, 6, 5 + length - 1)
        rest == advance(src, 4 + length)
    IN  IF try_from_ok(tag)
        THEN OkSome([tag |-> MessageTag[tag], payload |-> data], rest)
        ELSE Err("UnknownMessageType", rest)

decode(src) ==
    IF Len(src) < 4 THEN OkNone(src)
    ELSE LET length == from_be_bytes(SubSeq(src, 1, 4))
         IN  IF length = 0 THEN Heartbeat(src)
             ELSE IF FrameTooLarge(length) THEN Err("FrameTooLarge", src)
             ELSE IF Len(src) < 5 THEN OkNone(src)
             ELSE IF Len(src) < 4 + length THEN OkNone(src)
             ELSE TakeFrame(src, length)

----------------------------------------------------------------------------
(* MessageFramer::encode (src/peer.rs) *)

\* const MAX in encode
EncodeMAX == 8388608

\* mutant: the length marker counts the payload and not the tag
encode_payload_len(item) ==
    to_be_bytes(Len(item.payload)) \o <<tag_as_u8(item.tag)>> \o item.payload

\* the bytes a successful encode appends to dst
encode(item) ==
    to_be_bytes(MessageLen(item)) \o <<tag_as_u8(item.tag)>> \o item.payload

----------------------------------------------------------------------------
(* Strings (&str): sequences of characters.  TwoByteChar stands for a      *)
(* character whose UTF-8 encoding takes two bytes; every other character   *)
(* of the model is ASCII.                                                  *)

TwoByteChar == "U+E9"

\* char::len_utf8
len_utf8(c) == IF c = TwoByteChar THEN 2 ELSE 1

\* str::len: the length in bytes
RECURSIVE str_len(_)
str_len(s) == IF s = <<>> THEN 0 ELSE len_utf8(Head(s)) + str_len(Tail(s))

\* str::is_char_boundary(n)
RECURSIVE is_char_boundary(_, _)
is_char_boundary(s, n) ==
    IF n = 0 THEN TRUE
    ELSE IF s = <<>> THEN FALSE
    ELSE IF len_utf8(Head(s)) > n THEN FALSE
    ELSE is_char_boundary(Tail(s), n - len_utf8(Head(s)))

\* the number of characters in the first n bytes of s (n a character boundary)
RECURSIVE chars_in(_, _)
chars_in(s, n) ==
    IF n = 0 THEN 0 ELSE 1 + chars_in(Tail(s), n - len_utf8(Head(s)))

\* str::split_once(c): the position of the first c in s, 0 when there is none
RECURSIVE find_char(_, _)
find_char(s, c) ==
    IF s = <<>> THEN 0
    ELSE IF Head(s) = c THEN 1
    ELSE LET k == find_char(Tail(s), c) IN IF k = 0 THEN 0 ELSE k + 1

Digits == <<"0", "1", "2", "3", "4", "5", "6", "7", "8", "9">>

is_digit(c) == \E k \in 1..10 : Digits[k] = c

\* char::to_digit(10)
to_digit(c) == (CHOOSE k \in 1..10 : Digits[k] = c) - 1

\* the value of a string of decimal digits (the strings of the model are
\* shorter than the 19 digits of i64::MAX, so the overflow error never arises)
RECURSIVE digits_value(_, _)
digits_value(s, acc) ==
    IF s = <<>> THEN acc ELSE digits_value(Tail(s), acc * 10 + to_digit(Head(s)))

all_digits(s) == \A k \in 1..Len(s) : is_digit(s[k])

\* str::parse::<i64>: an optional '+' or '-', then one decimal digit or more
parse_i64(s) ==
    IF s = <<>> THEN [ok |-> FALSE, val |-> 0]
    ELSE LET signed == Head(s) \in {"+", "-"}
             body   == IF signed THEN Tail(s) ELSE s
         IN  IF body = <<>> \/ ~all_digits(body) THEN [ok |-> FALSE, val |-> 0]
             ELSE [ok |-> TRUE,
                   val |-> IF Head(s) = "-" THEN 0 - digits_value(body, 0)
                                             ELSE digits_value(body, 0)]

\* str::parse::<usize>: an optional '+', then one decimal digit or more
parse_usize(s) ==
    IF s = <<>> THEN [ok |-> FALSE, val |-> 0]
    ELSE LET body == IF Head(s) = "+" THEN Tail(s) ELSE s
         IN  IF body = <<>> \/ ~all_digits(body) THEN [ok |-> FALSE, val |-> 0]
             ELSE [ok |-> TRUE, val |-> digits_value(body, 0)]

----------------------------------------------------------------------------
(* serde_bencode::value::Value, as decode_bencoded_value builds it         *)

NoValue      == [t |-> "None",  i |-> 0, s |-> <<>>, l |-> <<>>, d |-> <<>>]
\* BencodeValue::Int
BInt(n)      == [t |-> "Int",   i |-> n, s |-> <<>>, l |-> <<>>, d |-> <<>>]
\* BencodeValue::Bytes
BBytes(b)    == [t |-> "Bytes", i |-> 0, s |-> b,    l |-> <<>>, d |-> <<>>]
\* BencodeValue::List
BList(vs)    == [t |-> "List",  i |-> 0, s |-> <<>>, l |-> vs,   d |-> <<>>]
\* BencodeValue::Dict: a HashMap, here a function from the keys to the values
BDict(m)     == [t |-> "Dict",  i |-> 0, s |-> <<>>, l |-> <<>>, d |-> m]

\* HashMap::insert
map_insert(m, k, v) == [x \in (DOMAIN m) \cup {k} |-> IF x = k THEN v ELSE m[x]]

----------------------------------------------------------------------------
(* decode_cmd and the decoders it calls (src/de.rs) *)

Pending == [kind |-> "pending", value |-> NoValue, rest |-> <<>>]
\* Ok((value, rest))
DeOk(v, rest) == [kind |-> "ok", value |-> v, rest |-> rest]
\* Err(anyhow!(..))
DeErr == [kind |-> "err", value |-> NoValue, rest |-> <<>>]
\* a panic: a slice that does not end on a character boundary
DePanic == [kind |-> "panic", value |-> NoValue, rest |-> <<>>]

\* `int_str.starts_with('0') && int != 0`, int_str without its '-'
LeadingZero(digits, int) == Head(digits) = "0" /\ int # 0

\* `int_str.strip_prefix("-0").is_some()`
MinusZero(int_str) == Len(int_str) >= 2 /\ int_str[1] = "-" /\ int_str[2] = "0"

decode_bencoded_int(encoded_int) ==
    IF encoded_int = <<>> \/ Head(encoded_int) # "i" THEN DeErr
    ELSE LET body == Tail(encoded_int)
             at   == find_char(body, "e")
         IN  IF at = 0 THEN DeErr
             ELSE LET int_str == SubSeq(body, 1, at - 1)
                      rest    == SubSeq(body, at + 1, Len(body))
                      int     == parse_i64(int_str)
                      digits  == IF int_str # <<>> /\ Head(int_str) = "-"
                                 THEN Tail(int_str) ELSE int_str
                  IN  IF MinusZero(int_str) THEN DeErr
                      ELSE IF ~int.ok THEN DeErr
                      ELSE IF digits # <<>> /\ LeadingZero(digits, int.val) THEN DeErr
                      ELSE DeOk(BInt(int.val), rest)

\* mutant: the declared length counts characters, not bytes
take_bytes_as_chars(rest, len) ==
    IF len > Len(rest) THEN DeErr
    ELSE DeOk(BBytes(SubSeq(rest, 1, len)), SubSeq(rest, len + 1, Len(rest)))

\* `len > rest.len()`, then `&rest[..len]` and `&rest[len..]`
take_bytes(rest, len) ==
    IF len > str_len(rest) THEN DeErr
    ELSE IF ~is_char_boundary(rest, len) THEN DePanic
    ELSE LET n == chars_in(rest, len)
         IN  DeOk(BBytes(SubSeq(rest, 1, n)), SubSeq(rest, n + 1, Len(rest)))

decode_bencoded_string(encoded_string) ==
    LET at == find_char(encoded_string, ":")
    IN  IF at = 0 THEN DeErr
        ELSE LET len_str == SubSeq(encoded_string, 1, at - 1)
                 rest    == SubSeq(encoded_string, at + 1, Len(encoded_string))
                 len     == parse_usize(len_str)
             IN  IF ~len.ok THEN DeErr ELSE take_bytes(rest, len.val)

RECURSIVE decode_bencoded_value(_)
RECURSIVE list_loop(_, _)
RECURSIVE dict_loop(_, _)

\* the `while` loop of the 'l' arm and the strip_prefix('e') after it
list_loop(values, remainder) ==
    IF remainder # <<>> /\ Head(remainder) = "e"
    THEN DeOk(BList(values), Tail(remainder))
    ELSE LET r == decode_bencoded_value(remainder)
         IN  IF r.kind # "ok" THEN r
             ELSE list_loop(Append(values, r.value), r.rest)

\* mutant: whatever is decoded in a key position is taken for the key
dict_loop_any_key(map, remainder) ==
    IF remainder # <<>> /\ Head(remainder) = "e"
    THEN DeOk(BDict(map), Tail(remainder))
    ELSE LET decoded == decode_bencoded_value(remainder)
         IN  IF decoded.kind # "ok" THEN decoded
             ELSE LET r == decode_bencoded_value(decoded.rest)
                  IN  IF r.kind # "ok" THEN r
                      ELSE dict_loop(map_insert(map, decoded.value.s, r.value), r.rest)

\* the `while` loop of the 'd' arm and the strip_prefix('e') after it
dict_loop(map, remainder) ==
    IF remainder # <<>> /\ Head(remainder) = "e"
    THEN DeOk(BDict(map), Tail(remainder))
    ELSE LET decoded == decode_bencoded_value(remainder)
         IN  IF decoded.kind # "ok" THEN decoded
             ELSE IF decoded.value.t # "Bytes" THEN DeErr
             ELSE LET r == decode_bencoded_value(decoded.rest)
                  IN  IF r.kind # "ok" THEN r
                      ELSE dict_loop(map_insert(map, decoded.value.s, r.value), r.rest)

decode_bencoded_value(encoded_value) ==
    IF encoded_value = <<>> THEN DeErr
    ELSE LET first_char == Head(encoded_value)
         IN  CASE first_char = "i" -> decode_bencoded_int(encoded_value)
               [] is_digit(first_char) -> decode_bencoded_string(encoded_value)
               [] first_char = "l" -> list_loop(<<>>, Tail(encoded_value))
               [] first_char = "d" -> dict_loop(<<>>, Tail(encoded_value))
               [] OTHER -> DeErr

\* mutant: the input left after the first value is not looked at
decode_cmd_first(encoded_value) == decode_bencoded_value(encoded_value)

decode_cmd(encoded_value) ==
    LET r == decode_bencoded_value(encoded_value)
    IN  IF r.kind # "ok" THEN r
        ELSE IF r.rest = <<>> THEN r
        ELSE DeErr

----------------------------------------------------------------------------
(* The bencode encoding: integers as i<value>e, byte strings as            *)
(* <len>:<bytes>, lists and dictionaries bracketed by l/d and e            *)

\* the decimal digits of a natural number
RECURSIVE to_decimal(_)
to_decimal(n) ==
    IF n < 10 THEN <<Digits[n + 1]>> ELSE to_decimal(n \div 10) \o <<Digits[(n % 10) + 1]>>

\* the keys a dictionary of the model may hold
DictKeys == << <<"e">>, <<>>, <<":", "1">> >>

KeyRank(k) == CHOOSE n \in 1..Len(DictKeys) : DictKeys[n] = k

RECURSIVE bencode(_, _)
RECURSIVE bencode_list(_, _)
RECURSIVE bencode_dict(_, _, _)

bencode_list(vs, asc) ==
    IF vs = <<>> THEN <<>> ELSE bencode(Head(vs), asc) \o bencode_list(Tail(vs), asc)

\* the pairs of m whose keys are in ks, by ascending or by descending key rank
bencode_dict(m, ks, asc) ==
    IF ks = {} THEN <<>>
    ELSE LET k == CHOOSE x \in ks : \A y \in ks :
                      IF asc THEN KeyRank(x) <= KeyRank(y) ELSE KeyRank(x) >= KeyRank(y)
         IN  bencode(BBytes(k), asc) \o bencode(m[k], asc) \o bencode_dict(m, ks \ {k}, asc)

bencode(v, asc) ==
    CASE v.t = "Int"   -> <<"i">> \o (IF v.i < 0 THEN <<"-">> \o to_decimal(0 - v.i)
                                                ELSE to_decimal(v.i)) \o <<"e">>
      [] v.t = "Bytes" -> to_decimal(str_len(v.s)) \o <<":">> \o v.s
      [] v.t = "List"  -> <<"l">> \o bencode_list(v.l, asc) \o <<"e">>
      [] v.t = "Dict"  -> <<"d">> \o bencode_dict(v.d, DOMAIN v.d, asc) \o <<"e">>

\* Command::Decode when another part of the program is the one running
IdleBencode ==
    msg = <<>> /\ origin = NoValue /\ first = Pending /\ result = Pending /\ shape = "-"

----------------------------------------------------------------------------
(* Command::DownloadPiece, src/main.rs: the data of a download session.

   A byte vector of the session is kept run-length encoded, a sequence of
   runs [n, b] standing for n bytes of value b with no two neighbouring runs
   of the same byte, so that two vectors are equal exactly when their
   encodings are. *)

\* the byte vectors
Vec == Seq([n : Nat, b : Nat])

Run(n, b) == IF n <= 0 THEN <<>> ELSE << [n |-> n, b |-> b] >>

BsLen[v \in Vec] == IF v = <<>> THEN 0 ELSE Head(v).n + BsLen[Tail(v)]

\* Vec::extend
BsCat[x \in Vec, y \in Vec] ==
    IF x = <<>> THEN y
    ELSE IF y = <<>> THEN x
    ELSE IF x[Len(x)].b = y[1].b
         THEN SubSeq(x, 1, Len(x) - 1) \o Run(x[Len(x)].n + y[1].n, y[1].b) \o Tail(y)
         ELSE x \o y

\* the vector of an explicit sequence of bytes
Bs[s \in Seq(Nat)] == IF s = <<>> THEN <<>> ELSE BsCat[Run(1, Head(s)), Bs[Tail(s)]]

\* the explicit sequence of bytes of a vector
Bytes[v \in Vec] ==
    IF v = <<>> THEN <<>>
    ELSE <<Head(v).b>> \o Bytes[Run(Head(v).n - 1, Head(v).b) \o Tail(v)]

\* &v[..k], for k up to the length (the rest of the vector beyond it)
BsTake[v \in Vec, k \in Int] ==
    IF k <= 0 \/ v = <<>> THEN <<>>
    ELSE IF Head(v).n <= k THEN BsCat[<<Head(v)>>, BsTake[Tail(v), k - Head(v).n]]
    ELSE Run(k, Head(v).b)

\* &v[k..]
BsDrop[v \in Vec, k \in Int] ==
    IF k <= 0 \/ v = <<>> THEN v
    ELSE IF Head(v).n <= k THEN BsDrop[Tail(v), k - Head(v).n]
    ELSE Run(Head(v).n - k, Head(v).b) \o Tail(v)

PIECE_BLOCK_MAX == 16384

\* Sha1::new, update, finalize: a digest of the bytes of the vector
Sha1Fold[v \in Vec, h \in Nat] ==
    IF v = <<>> THEN h
    ELSE Sha1Fold[Tail(v), (h * 31 + Head(v).n * 7 + Head(v).b + 1) % 9973]

Sha1[v \in Vec] == Sha1Fold[v, 17]

\* Keys::length: the total length of the content of the torrent
keys_length(t) == t.length

\* Torrent::info_hash: the digest of the bencoded info dictionary
info_hash(t) == <<"sha1", t.length, t.plength, t.pieces>>

Message(tag, payload) == [kind |-> "msg", tag |-> tag, payload |-> payload]

\* MessageRequest::new(index, begin, length).as_bytes()
MessageRequest(index, begin, length) ==
    to_be_bytes(index) \o to_be_bytes(begin) \o to_be_bytes(length)

\* MessageRequest::index, begin, length on the bytes of a Request
request_index(p)  == from_be_bytes(SubSeq(p, 1, 4))
request_begin(p)  == from_be_bytes(SubSeq(p, 5, 8))
request_length(p) == from_be_bytes(SubSeq(p, 9, 12))

\* the MessagePiece the payload of a Piece is cast to: index and begin are
\* its first eight bytes, block the payload.len() - 8 bytes after them
msg_piece_index(payload) == from_be_bytes(Bytes[BsTake[payload, 4]])
msg_piece_begin(payload) == from_be_bytes(Bytes[BsTake[BsDrop[payload, 4], 4]])
\* mutant: the block is the slice the cast starts from, payload[..len - 8]
msg_piece_block_slice(payload) == BsTake[payload, BsLen[payload] - 8]
msg_piece_block(payload) == BsDrop[payload, 8]

\* stream.next() returned None, or Some(Err(_)); nothing read yet
Eof   == [kind |-> "eof",  tag |-> "-", payload |-> <<>>]
RxErr == [kind |-> "err",  tag |-> "-", payload |-> <<>>]
NoRx  == [kind |-> "none", tag |-> "-", payload |-> <<>>]

NoTorrent == [length |-> 0, plength |-> 0, pieces |-> <<>>]

NoHandshake == [length |-> 0, bittorrent |-> "", info_hash |-> <<"none", 0, 0, <<>>>>]

NoOutput == [written |-> FALSE, bytes |-> <<>>]
Written(v) == [written |-> TRUE, bytes |-> v]

\* Command::DownloadPiece when another part of the program is the one running
IdleDownload ==
    /\ env = "-" /\ torrent = NoTorrent /\ piece_index = 0
    /\ pc = "idle" /\ outcome = "idle"
    /\ handshake = NoHandshake /\ sent = <<>> /\ rx = NoRx /\ rxCount = 0
    /\ piece_size = 0 /\ nblocks = 0 /\ block_idx = 0 /\ block_size = 0
    /\ all_blocks = <<>> /\ output = NoOutput

----------------------------------------------------------------------------
(* MessageFramer::encode with its destination buffer (src/peer.rs 213-241); *)
(* the payload and the buffer are byte vectors                              *)

\* mutant: a message of exactly MAX bytes is refused
EncodeTooLarge_inclusive(len) == len >= EncodeMAX

\* `if item.len() > MAX`
EncodeTooLarge(len) == len > EncodeMAX

\* Message::len on a message whose payload is a byte vector
item_len(item) == 1 + BsLen[item.payload]

\* encode(item, dst): the result and dst after the call
encode_to(item, dst) ==
    IF EncodeTooLarge(item_len(item))
    THEN [res |-> "err", dst |-> dst]
    ELSE [res |-> "ok",
          dst |-> BsCat[BsCat[BsCat[dst, Bs[to_be_bytes(item_len(item))]],
                              Run(1, tag_as_u8(item.tag))],
                        item.payload]]

NoItem == [tag |-> "-", payload |-> <<>>]

\* the encoder when another part of the program is the one running
IdleEncode ==
    encItem = NoItem /\ encDst = <<>> /\ encOut = <<>> /\ encRes = "idle"

\* the encode-then-decode pair when another part of the program is the one
\* running
IdleRoundTrip ==
    rtItems = <<>> /\ rtEncoded = 0 /\ rtBuf = <<>> /\ rtOut = <<>> /\ rtRes = "idle"

----------------------------------------------------------------------------
(* The byte streams of the framer specification *)

RECURSIVE Concat(_)
Concat(ss) == IF ss = <<>> THEN <<>> ELSE Head(ss) \o Concat(Tail(ss))

\* pieces of a byte stream: single bytes, a keep-alive, complete frames with a
\* known or an unknown tag, a length marker above the ceiling, one at it
WireChunks ==
       { <<b>> : b \in {0, 1, 2, 9} }
  \cup { to_be_bytes(0) }
  \cup { encode([tag |-> t, payload |-> p]) :
            t \in {"Unchoke", "Piece"}, p \in {<<>>, <<2>>} }
  \cup { to_be_bytes(1) \o <<9>>, to_be_bytes(2) \o <<9, 1>> }
  \cup { to_be_bytes(DecodeMAX + 1), to_be_bytes(DecodeMAX) \o <<5>> }

Wires == { Concat(cs) : cs \in UNION { [1..n -> WireChunks] : n \in 0..MaxChunks } }

\* one frame for every tag byte from 0 to 12, and for 255, alone on the stream
TagWires ==
    { to_be_bytes(1 + Len(p)) \o <<t>> \o p : t \in (0..12) \cup {255}, p \in {<<>>, <<2>>} }

NoCall == [src |-> <<>>, out |-> OkNone(<<>>), made |-> FALSE]

\* the framer when another part of the program is the one running
IdleFramer ==
    /\ wire = <<>> /\ srcWhole = <<>> /\ outWhole = <<>> /\ stWhole = "idle"
    /\ fed = 0 /\ srcByte = <<>> /\ outByte = <<>> /\ stByte = "idle"
    /\ errWhole = "-" /\ errByte = "-" /\ call = NoCall

InitFramer ==
    /\ IdleBencode
    /\ IdleDownload
    /\ IdleEncode
    /\ IdleRoundTrip
    /\ wire \in Wires \cup TagWires
    /\ srcWhole = wire
    /\ outWhole = <<>>
    /\ stWhole = "decoding"
    /\ fed = 0
    /\ srcByte = <<>>
    /\ outByte = <<>>
    /\ stByte = "need"
    /\ errWhole = "-"
    /\ errByte = "-"
    /\ call = NoCall

\* one call of decode on the buffer that holds the whole stream
DecodeWhole ==
    /\ stWhole = "decoding"
    /\ LET r == decode(srcWhole)
       IN  /\ srcWhole' = r.src
           /\ outWhole' = IF r.res = "msg" THEN Append(outWhole, r.msg) ELSE outWhole
           /\ stWhole' = IF r.res = "msg" THEN "decoding" ELSE r.res
           /\ errWhole' = r.err
           /\ call' = [src |-> srcWhole, out |-> r, made |-> TRUE]
    /\ UNCHANGED <<wire, fed, srcByte, outByte, stByte, errByte>>
    /\ UNCHANGED <<benVars, dlVars, encVars, rtVars>>

\* the transport delivers one more byte to the bytewise framer
FeedByte ==
    /\ stWhole # "decoding"
    /\ stByte = "need"
    /\ fed < Len(wire)
    /\ fed' = fed + 1
    /\ srcByte' = Append(srcByte, wire[fed + 1])
    /\ stByte' = "decoding"
    /\ UNCHANGED <<wire, srcWhole, outWhole, stWhole, outByte, errWhole, errByte, call>>
    /\ UNCHANGED <<benVars, dlVars, encVars, rtVars>>

\* one call of decode on the bytewise buffer
DecodeByte ==
    /\ stByte = "decoding"
    /\ LET r == decode(srcByte)
       IN  /\ srcByte' = r.src
           /\ outByte' = IF r.res = "msg" THEN Append(outByte, r.msg) ELSE outByte
           /\ stByte' = CASE r.res = "msg" -> "decoding"
                          [] r.res = "none" -> "need"
                          [] OTHER -> "err"
           /\ errByte' = r.err
           /\ call' = [src |-> srcByte, out |-> r, made |-> TRUE]
    /\ UNCHANGED <<wire, srcWhole, outWhole, stWhole, fed, errWhole>>
    /\ UNCHANGED <<benVars, dlVars, encVars, rtVars>>

NextFramer == DecodeWhole \/ FeedByte \/ DecodeByte

SpecFramer == InitFramer /\ [][NextFramer]_vars

\* both framers have stopped: an error, or need-more-data with the stream used up
FramerDone ==
    /\ stWhole # "decoding"
    /\ stByte = "err" \/ (stByte = "need" /\ fed = Len(wire))

\* C1: feeding decode the stream one byte at a time yields the same messages,
\* and the same error at the same position of the stream, as appending the
\* whole stream at once and calling decode repeatedly.
C1_BytewiseSameAsWhole ==
    FramerDone =>
        /\ outByte = outWhole
        /\ errByte = errWhole
        /\ (stByte = "err") = (stWhole = "err")
        /\ fed - Len(srcByte) = Len(wire) - Len(srcWhole)
        /\ stByte = "need" => srcByte = srcWhole

\* a message, then an error before the end of the stream, on both paths
C1_Witness ==
    FramerDone /\ Len(outByte) >= 1 /\ stByte = "err" /\ Len(wire) > fed

\* the length marker at the head of a buffer of at least 4 bytes
HeadLength(src) == from_be_bytes(SubSeq(src, 1, 4))

\* C10: decode returns the frame-too-large error whenever the length marker at
\* the head of the buffer exceeds 65536, however many bytes follow it, and
\* only a marker above 65536 is ever rejected for its size.
C10_CeilingIs64KiB ==
    call.made =>
        /\ (Len(call.src) >= 4 /\ HeadLength(call.src) > 65536)
              => (call.out.res = "err" /\ call.out.err = "FrameTooLarge")
        /\ call.out.err = "FrameTooLarge"
              => (Len(call.out.src) >= 4 /\ HeadLength(call.out.src) > 65536)

\* a marker above the ceiling is rejected with bytes of its frame behind it
C10_Witness ==
    /\ call.made /\ Len(call.src) > 4 /\ HeadLength(call.src) > 65536
    /\ call.out.err = "FrameTooLarge"

\* the buffer without the keep-alives (four zero bytes) at its head
RECURSIVE StripKeepAlives(_)
StripKeepAlives(src) ==
    IF Len(src) >= 4 /\ SubSeq(src, 1, 4) = <<0, 0, 0, 0>>
    THEN StripKeepAlives(SubSeq(src, 5, Len(src)))
    ELSE src

\* a whole frame of a size within the ceiling is at the head of the buffer
CompleteFrameAt(b) ==
    /\ Len(b) >= 5
    /\ HeadLength(b) \in 1..65536
    /\ Len(b) >= 4 + HeadLength(b)

\* the latest call of decode found a keep-alive at the head of its buffer
KeepAliveCall ==
    call.made /\ Len(call.src) >= 4 /\ SubSeq(call.src, 1, 4) = <<0, 0, 0, 0>>

\* C11: a keep-alive at the head of the buffer yields no message: decode
\* removes its 4 bytes and goes on with the bytes that follow in the same
\* call.  A keep-alive followed by a complete frame returns the message of
\* that frame, a buffer of keep-alives only returns need-more-data with the
\* buffer empty, and a call that needs more data has removed the keep-alives
\* and nothing else.
C11_KeepAliveSkipped ==
    KeepAliveCall =>
        LET rest == StripKeepAlives(call.src)
        IN  /\ rest = <<>> => (call.out.res = "none" /\ call.out.src = <<>>)
            /\ (CompleteFrameAt(rest) /\ rest[5] \in 0..8) =>
                  /\ call.out.res = "msg"
                  /\ call.out.msg.tag = MessageTag[rest[5]]
                  /\ call.out.msg.payload = SubSeq(rest, 6, 4 + HeadLength(rest))
                  /\ call.out.src = SubSeq(rest, 5 + HeadLength(rest), Len(rest))
            /\ call.out.res = "none" => call.out.src = rest

\* a keep-alive, a frame with a payload, and bytes after it: the message of
\* the frame comes out of the call that met the keep-alive
C11_Witness ==
    /\ KeepAliveCall
    /\ call.out.res = "msg"
    /\ call.out.msg.payload # <<>>
    /\ call.out.src # <<>>
    /\ Len(call.src) = 4 + 4 + 1 + Len(call.out.msg.payload) + Len(call.out.src)

\* the frame at the head of the buffer is not all there: the length marker is
\* short, or fewer bytes than the marker declares follow it
IncompleteFrameAt(b) ==
    \/ Len(b) < 4
    \/ HeadLength(b) \in 1..65536 /\ Len(b) < 4 + HeadLength(b)

\* C12: when the frame at the head of the buffer, behind any keep-alives, is
\* incomplete, decode returns need-more-data, not an error, and removes none
\* of its bytes; the bytes of a frame are removed only in the call that finds
\* the frame complete, the call that returns its message or rejects its tag.
C12_IncompleteFrameKept ==
    call.made =>
        LET rest == StripKeepAlives(call.src)
        IN  /\ IncompleteFrameAt(rest) => (call.out.res = "none" /\ call.out.src = rest)
            /\ call.out.src # rest =>
                  /\ CompleteFrameAt(rest)
                  /\ call.out.src = SubSeq(rest, 5 + HeadLength(rest), Len(rest))
                  /\ call.out.res = "msg" \/ call.out.err = "UnknownMessageType"

\* a length marker and a tag are buffered, the payload is not: nothing is removed
C12_Witness ==
    /\ call.made
    /\ Len(call.src) >= 5
    /\ HeadLength(call.src) \in 2..65536
    /\ Len(call.src) < 4 + HeadLength(call.src)
    /\ call.out.res = "none"
    /\ call.out.src = call.src

\* C12 as first stated: the bytes of a frame are removed only in the call that
\* returns its complete message.
C12_RemovedOnlyWithMessage ==
    (call.made /\ call.out.src # StripKeepAlives(call.src)) => call.out.res = "msg"

----------------------------------------------------------------------------
(* One call of MessageFramer::encode *)

\* the payloads: none, short ones, and the sizes around the ceiling of encode
EncodePayloads ==
    { <<>>, Run(1, 7), Bs[<<0, 0, 1>>], Run(DecodeMAX, 1),
      Run(EncodeMAX - 2, 3), Run(EncodeMAX - 1, 3), Run(EncodeMAX, 3), Run(EncodeMAX + 5, 0) }

\* what the destination buffer holds before the call
EncodeDsts == { <<>>, Bs[<<0, 0, 0, 1, 1>>], Run(3, 9) }

InitEncode ==
    /\ IdleFramer
    /\ IdleBencode
    /\ IdleDownload
    /\ IdleRoundTrip
    /\ encItem \in [tag : { MessageTag[t] : t \in DOMAIN MessageTag }, payload : EncodePayloads]
    /\ encDst \in EncodeDsts
    /\ encOut = encDst
    /\ encRes = "pending"

\* Framed's sink: `encode(item, dst)`
Encode ==
    /\ encRes = "pending"
    /\ LET r == encode_to(encItem, encDst)
       IN  encRes' = r.res /\ encOut' = r.dst
    /\ UNCHANGED <<encItem, encDst>>
    /\ UNCHANGED <<framerVars, benVars, dlVars, rtVars>>

NextEncode == Encode

SpecEncode == InitEncode /\ [][NextEncode]_vars

\* the tags in the order of their bytes
TagNames == <<"Choke", "Unchoke", "Interested", "NotInterested", "Have", "Bitfield",
              "Request", "Piece", "Cancel">>

\* C13: a successful encode appends exactly 4 + 1 + payload.len() bytes to
\* the destination: the big-endian u32 of 1 + payload.len(), the tag byte,
\* the payload unchanged; a message of more than 8 MiB (tag and payload)
\* makes encode fail with the destination as it was.
C13_EncodeLayout ==
    encRes \in {"ok", "err"} =>
        LET n   == BsLen[encDst]
            len == BsLen[encItem.payload]
        IN  IF 1 + len <= 8 * 1024 * 1024
            THEN /\ encRes = "ok"
                 /\ BsLen[encOut] = n + 4 + 1 + len
                 /\ BsTake[encOut, n] = encDst
                 /\ from_be_bytes(Bytes[BsTake[BsDrop[encOut, n], 4]]) = 1 + len
                 /\ \E t \in 1..9 : /\ TagNames[t] = encItem.tag
                                    /\ BsTake[BsDrop[encOut, n + 4], 1] = Run(1, t - 1)
                 /\ BsDrop[encOut, n + 5] = encItem.payload
            ELSE encRes = "err" /\ encOut = encDst

\* a message of exactly 8 MiB is appended to a buffer that held bytes
C13_Witness ==
    /\ encRes = "ok"
    /\ 1 + BsLen[encItem.payload] = 8 * 1024 * 1024
    /\ encDst # <<>>
    /\ BsLen[encOut] = BsLen[encDst] + 4 + 8 * 1024 * 1024

\* C14: a complete frame whose tag byte is outside 0..=8 makes decode return
\* the unknown-message-type error instead of a message; the tag bytes 0..=8
\* give Choke, Unchoke, Interested, NotInterested, Have, Bitfield, Request,
\* Piece and Cancel, in that order.
C14_TagsZeroToEight ==
    call.made =>
        LET rest == StripKeepAlives(call.src)
        IN  CompleteFrameAt(rest) =>
                IF rest[5] \in 0..8
                THEN call.out.res = "msg" /\ call.out.msg.tag = TagNames[rest[5] + 1]
                ELSE /\ call.out.res = "err"
                     /\ call.out.err = "UnknownMessageType"
                     /\ call.out.msg = NoMsg

\* a complete frame with a payload and the tag byte 255 is rejected
C14_Witness ==
    /\ call.made
    /\ CompleteFrameAt(call.src)
    /\ HeadLength(call.src) = 2
    /\ call.src[5] = 255
    /\ call.out.res = "err"
    /\ call.out.err = "UnknownMessageType"

----------------------------------------------------------------------------
(* Command::Decode: decode_cmd applied to a string *)

SeqsUpTo(S, n) == UNION { [1..k -> S] : k \in 0..n }

\* the characters the typed strings are made of
MsgChars == {"i", "e", "-", "+", "0", "3", "a"}

Msgs == SeqsUpTo(MsgChars, MaxMsgLen)

ByteStrings ==
    { <<>>, <<"e">>, <<":", "1">>, <<TwoByteChar, "a">>,
      <<"i", "3", "e", "l", "d", "0", ":", "e", "-", "a">> }

Atoms == { BInt(n) : n \in {0 - 10, 0, 7, 305} } \cup { BBytes(b) : b \in ByteStrings }

KeySets == { K \in SUBSET { DictKeys[n] : n \in 1..Len(DictKeys) } : Cardinality(K) <= MaxItems }

ListsOf(S) == { BList(vs) : vs \in SeqsUpTo(S, MaxItems) }

DictsOf(S) == { BDict(m) : m \in UNION { [K -> S] : K \in KeySets } }

\* the values that are nested one level deeper
Nested ==
    { BInt(0 - 10), BBytes(<<"e">>), BList(<<>>), BList(<<BInt(0)>>), BDict(<<>>),
      BDict([k \in { <<"e">> } |-> BBytes(<<":", "1">>)]) }

BencodeValues == Atoms \cup ListsOf(Atoms) \cup DictsOf(Atoms) \cup ListsOf(Nested) \cup DictsOf(Nested)

\* strings made of whole tokens: brackets, terminators, an integer, byte
\* strings, a character that starts no value
Tokens == { <<"d">>, <<"l">>, <<"e">>, <<"i", "3", "e">>, <<"1", ":", "a">>, <<"0", ":">>, <<"x">> }

TokenMsgs == { Concat(ts) : ts \in SeqsUpTo(Tokens, MaxTokens) }

\* what stands before the colon of a typed byte string
LenStrs == { <<"0">>, <<"1">>, <<"2">>, <<"3">>, <<"5">>, <<"0", "0">>, <<"0", "2">>,
             <<"1", "0">>, <<"1", "a">>, <<"1", "+">>, <<"2", "-">> }

StringMsgs ==
    { l \o <<":">> \o d : l \in LenStrs, d \in SeqsUpTo({"a", ":", "e", TwoByteChar}, MaxData) }

\* 'i1ei2e', '4:spamx', '5:hello', '5:hi', '4:spam', 'l4:spami42ee', 'd3:foo3:bare'
ExampleMsgs ==
    { <<"i", "1", "e", "i", "2", "e">>,
      <<"4", ":", "s", "p", "a", "m", "x">>,
      <<"5", ":", "h", "e", "l", "l", "o">>,
      <<"5", ":", "h", "i">>,
      <<"4", ":", "s", "p", "a", "m">>,
      <<"l", "4", ":", "s", "p", "a", "m", "i", "4", "2", "e", "e">>,
      <<"d", "3", ":", "f", "o", "o", "3", ":", "b", "a", "r", "e">> }

\* values that are no byte string
NotByteStrings == { BInt(7), BList(<<>>), BDict(<<>>), BList(<<BBytes(<<"e">>)>>) }

Front(s) == SubSeq(s, 1, Len(s) - 1)

InitBencode ==
    /\ IdleFramer
    /\ IdleDownload
    /\ IdleEncode
    /\ IdleRoundTrip
    /\ first = Pending
    /\ result = Pending
    /\ \/ /\ shape = "typed"
          /\ origin = NoValue
          /\ msg \in Msgs \cup TokenMsgs \cup StringMsgs \cup ExampleMsgs
       \/ /\ shape = "encoded"
          /\ \E asc \in BOOLEAN : origin \in BencodeValues /\ msg = bencode(origin, asc)
       \/ /\ shape = "unterminated"
          /\ origin = NoValue
          /\ \E asc \in BOOLEAN, c \in { v \in BencodeValues : v.t \in {"List", "Dict"} } :
                msg = Front(bencode(c, asc))
       \/ /\ shape = "badkey"
          /\ origin = NoValue
          /\ \E asc \in BOOLEAN, c \in DictsOf(Atoms), bad \in NotByteStrings,
                v \in {BInt(7), BBytes(<<"e">>)} :
                msg = <<"d">> \o bencode_dict(c.d, DOMAIN c.d, asc)
                          \o bencode(bad, asc) \o bencode(v, asc) \o <<"e">>
       \/ /\ shape = "novalue"
          /\ origin = NoValue
          /\ \E asc \in BOOLEAN, c \in DictsOf(Atoms), k \in ByteStrings :
                msg = <<"d">> \o bencode_dict(c.d, DOMAIN c.d, asc)
                          \o bencode(BBytes(k), asc) \o <<"e">>

\* main, Command::Decode: `de::decode_cmd(&msg)`
DecodeCmd ==
    /\ result.kind = "pending"
    /\ first' = decode_bencoded_value(msg)
    /\ result' = decode_cmd(msg)
    /\ UNCHANGED <<msg, origin, shape>>
    /\ UNCHANGED <<framerVars, dlVars, encVars, rtVars>>

NextBencode == DecodeCmd

SpecBencode == InitBencode /\ [][NextBencode]_vars

\* C6: decoding the encoding of a value returns that value and leaves no input.
C6_RoundTrip ==
    (origin # NoValue /\ result.kind # "pending") =>
        /\ result.kind = "ok"
        /\ result.value = origin
        /\ first.kind = "ok" /\ first.value = origin /\ first.rest = <<>>

\* a dictionary of two keys that holds a container has made the round trip
C6_Witness ==
    /\ result.kind = "ok" /\ origin.t = "Dict"
    /\ Cardinality(DOMAIN origin.d) = 2
    /\ \E k \in DOMAIN origin.d : origin.d[k].t \in {"List", "Dict"}

\* msg is 'i' body 'e' with no 'e' in the body
IsInt == Len(msg) >= 2 /\ msg[1] = "i" /\ msg[Len(msg)] = "e"
         /\ \A k \in 2..(Len(msg) - 1) : msg[k] # "e"

\* the text between the 'i' and the 'e', and that text without its '-'
IntBody == SubSeq(msg, 2, Len(msg) - 1)
IntDigits == IF IntBody # <<>> /\ IntBody[1] = "-" THEN Tail(IntBody) ELSE IntBody

\* a digit string of two digits or more that starts with '0'
LeadingZeroDigits(d) == Len(d) >= 2 /\ all_digits(d) /\ d[1] = "0"

\* C7: 'i' d 'e' and 'i-' d 'e' fail for every digit string d of length >= 2
\* that starts with '0', 'i-0e' fails, and 'i0e' gives Integer(0).
C7_LeadingZeroRejected ==
    (result.kind # "pending" /\ IsInt) =>
        /\ LeadingZeroDigits(IntDigits) => first.kind = "err"
        /\ IntBody = <<"-", "0">> => first.kind = "err"
        /\ IntBody = <<"0">> => (first.kind = "ok" /\ first.value = BInt(0))

\* C8: an integer is decoded only from 'i', an optional '-', one decimal digit
\* or more, and 'e': an empty digit string, a missing 'e' and any other
\* character in the body, a leading '+' included, make the decoding fail.
C8_OnlyDigitsAccepted ==
    (result.kind # "pending" /\ msg # <<>> /\ Head(msg) = "i" /\ first.kind = "ok") =>
        \E k \in 2..Len(msg) :
            /\ msg[k] = "e"
            /\ \A j \in 2..(k - 1) : msg[j] # "e"
            /\ LET body   == SubSeq(msg, 2, k - 1)
                   digits == IF body # <<>> /\ body[1] = "-" THEN Tail(body) ELSE body
               IN  digits # <<>> /\ all_digits(digits)

\* C16: decode_cmd succeeds only when the input is exactly one bencoded
\* value: when input is left after the first value, as in 'i1ei2e' and
\* '4:spamx', it fails; when none is left it returns that value; and it
\* returns nothing that the first value's decoding did not.
C16_ExactlyOneValue ==
    result.kind # "pending" =>
        /\ (first.kind = "ok" /\ first.rest # <<>>) => result.kind = "err"
        /\ (first.kind = "ok" /\ first.rest = <<>>) =>
              (result.kind = "ok" /\ result.value = first.value)
        /\ result.kind = "ok" => (first.kind = "ok" /\ first.rest = <<>>)
        /\ msg = <<"i", "1", "e", "i", "2", "e">> => result.kind = "err"
        /\ msg = <<"4", ":", "s", "p", "a", "m", "x">> => result.kind = "err"
        /\ msg = <<"4", ":", "s", "p", "a", "m">> =>
              (result.kind = "ok" /\ result.value = BBytes(<<"s", "p", "a", "m">>))

\* '4:spamx': the byte string is decoded, the 'x' is left, decode_cmd fails
C16_Witness ==
    /\ msg = <<"4", ":", "s", "p", "a", "m", "x">>
    /\ first.kind = "ok"
    /\ first.value = BBytes(<<"s", "p", "a", "m">>)
    /\ first.rest = <<"x">>
    /\ result.kind = "err"

\* msg starts with a digit and holds a colon: a byte string '<len>:<data>'
IsString == msg # <<>> /\ is_digit(msg[1]) /\ find_char(msg, ":") > 0

\* the text before the first colon, and the text after it
StrLen  == SubSeq(msg, 1, find_char(msg, ":") - 1)
StrData == SubSeq(msg, find_char(msg, ":") + 1, Len(msg))

\* C17: decoding '<len>:<data>' returns the first len bytes after the colon
\* as the value and everything after them as the remaining input ('5:hello'
\* gives ByteString('hello') and nothing left); it fails when fewer than len
\* bytes follow the colon ('5:hi') and when the length prefix is not a
\* non-negative integer.
C17_ByteStringDecoded ==
    (result.kind # "pending" /\ IsString) =>
        /\ IF all_digits(StrLen) /\ digits_value(StrLen, 0) <= str_len(StrData)
           THEN /\ first.kind = "ok"
                /\ first.value.t = "Bytes"
                /\ str_len(first.value.s) = digits_value(StrLen, 0)
                /\ first.value.s \o first.rest = StrData
           ELSE first.kind = "err"
        /\ msg = <<"5", ":", "h", "e", "l", "l", "o">> =>
              first = DeOk(BBytes(<<"h", "e", "l", "l", "o">>), <<>>)
        /\ msg = <<"5", ":", "h", "i">> => first.kind = "err"

\* C18: a dictionary 'd ... e' is read as (key, value) pairs up to the
\* terminator; its decoding fails when a key position holds an integer, a
\* list or a dictionary, when a key has no value after it, and when the
\* terminator is missing.  A list 'l ... e' gives its elements in the order
\* of the input and fails when the terminator is missing.  The empty input,
\* and any first character other than 'i', a digit, 'l' and 'd', fail.
C18_ContainersDecoded ==
    result.kind # "pending" =>
        /\ shape = "badkey" => first.kind = "err"
        /\ shape = "novalue" => first.kind = "err"
        /\ shape = "unterminated" => first.kind = "err"
        /\ (shape = "encoded" /\ origin.t = "List") =>
              (first.kind = "ok" /\ first.value.t = "List" /\ first.value.l = origin.l)
        /\ (shape = "encoded" /\ origin.t = "Dict") =>
              (first.kind = "ok" /\ first.value.t = "Dict" /\ first.value.d = origin.d)
        /\ (msg = <<>> \/ (msg # <<>> /\ msg[1] \notin {"i", "l", "d"} /\ ~is_digit(msg[1])))
              => first.kind = "err"

\* a dictionary with a pair, then a list where a key should be
C18_Witness ==
    /\ shape = "badkey"
    /\ first.kind = "err"
    /\ Len(msg) >= 10
    /\ \E k \in 2..Len(msg) : msg[k] = "l"

----------------------------------------------------------------------------
(* Command::DownloadPiece, src/main.rs 142-273: one download session *)

CeilDiv(a, b) == (a + b - 1) \div b

Min(a, b) == IF a <= b THEN a ELSE b

\* the content the swarm shares: the bytes of block k of piece p
TrueByte(p, k) == 1 + ((p + k) % 3)

\* the number of bytes of piece p of a content of len bytes cut every pl bytes
TruePieceSize(len, pl, p) == IF pl = 0 THEN 0 ELSE Min(pl, len - p * pl)

TrueBlocks[p \in Nat, k \in Nat, left \in Int] ==
    IF left <= 0 THEN <<>>
    ELSE BsCat[Run(Min(left, PIECE_BLOCK_MAX), TrueByte(p, k)),
               TrueBlocks[p, k + 1, left - PIECE_BLOCK_MAX]]

TruePiece(len, pl, p) == TrueBlocks[p, 0, TruePieceSize(len, pl, p)]

\* total length and piece length of the torrents of the sessions
Geometries == { <<1000, 256>>, <<512, 256>>, <<40000, 32768>>, <<50000, 50000>> }

\* short contents of every length, cut into pieces of every length
ShortGeometries == (1..MaxLength) \X (1..MaxPieceLength)

\* the metainfo of a content, with extra hashes after those of its pieces
MakeTorrent(len, pl, extra) ==
    [length  |-> len,
     plength |-> pl,
     pieces  |-> [i \in 1..(CeilDiv(len, pl) + extra) |->
                     Sha1[TruePiece(len, pl, i - 1)]]]

\* a torrent file is whatever parses: its hash count and its piece length
\* need not agree with its total length
Torrents(e) ==
    { MakeTorrent(g[1], g[2], 0) : g \in Geometries }
    \cup (IF e = "honest" THEN { MakeTorrent(g[1], g[2], 0) : g \in ShortGeometries }
          ELSE { MakeTorrent(1000, 256, 1),
                 [length |-> 1000, plength |-> 0, pieces |-> <<Sha1[<<>>], Sha1[<<>>]>>] })

\* what the peer may write back on the handshake
Handshakes(e, t) ==
    IF e = "honest"
    THEN { [length |-> 19, bittorrent |-> "BitTorrent protocol", info_hash |-> info_hash(t)] }
    ELSE [length : {19, 20},
          bittorrent : {"BitTorrent protocol", "BitTorrent protocoL"},
          info_hash : {info_hash(t), info_hash(NoTorrent)}]

\* what stream.next() may return where the Bitfield is awaited
BitfieldReplies(e) ==
    { Message("Bitfield", v) : v \in {<<>>, Run(1, 255)} }
    \cup (IF e = "honest" THEN {}
          ELSE {Eof, RxErr, Message("Unchoke", <<>>), Message("Have", Bs[to_be_bytes(0)])})

\* what stream.next() may return where the Unchoke is awaited
UnchokeReplies(e) ==
    { Message("Unchoke", <<>>) }
    \cup (IF e = "honest" THEN {}
          ELSE {Eof, RxErr, Message("Unchoke", Run(1, 0)), Message("Choke", <<>>),
                Message("Bitfield", Run(1, 255))})

\* the payload of a Piece: index, begin and the block
PiecePayload(index, begin, block) ==
    BsCat[BsCat[Bs[to_be_bytes(index)], Bs[to_be_bytes(begin)]], block]

\* the answer of a peer that serves the request from the true content
HonestPiece(t, request) ==
    LET index  == request_index(request)
        begin  == request_begin(request)
        length == request_length(request)
    IN  Message("Piece",
                PiecePayload(index, begin,
                             BsTake[BsDrop[TruePiece(t.length, t.plength, index), begin],
                                    length]))

\* what stream.next() may return where the Piece of a request is awaited
PieceReplies(e, t, request) ==
    IF e = "honest" THEN { HonestPiece(t, request) }
    ELSE LET index  == request_index(request)
             begin  == request_begin(request)
             length == request_length(request)
             good   == TrueByte(index, begin \div PIECE_BLOCK_MAX)
         IN  { Message("Piece", PiecePayload(i, b, Run(n, d))) :
                   i \in {index, index + 1}, b \in {begin, begin + 1, begin + PIECE_BLOCK_MAX},
                   n \in {length, length - 1, length + 1}, d \in {good, 9} }
             \cup { Message("Piece", v) : v \in {<<>>, Bs[to_be_bytes(index)], Run(7, 0)} }
             \cup { Message(tg, PiecePayload(index, begin, Run(length, good))) :
                       tg \in {"Have", "Request"} }
             \cup { Message("Choke", <<>>), Eof, RxErr }

InitDownload ==
    /\ IdleFramer
    /\ IdleBencode
    /\ IdleEncode
    /\ IdleRoundTrip
    /\ env \in {"honest", "any"}
    /\ torrent \in Torrents(env)
    /\ piece_index \in 0..(Len(torrent.pieces) - (IF env = "honest" THEN 1 ELSE 0))
    /\ pc = "start"
    /\ outcome = "running"
    /\ handshake = NoHandshake
    /\ sent = <<>>
    /\ rx = NoRx
    /\ rxCount = 0
    /\ piece_size = 0
    /\ nblocks = 0
    /\ block_idx = 0
    /\ block_size = 0
    /\ all_blocks = <<>>
    /\ output = NoOutput

\* an input or output operation may fail where the environment is not the
\* one of a good run
MayFail == env = "any"

\* the `?` on a failed operation: main returns the error
ReturnErr ==
    /\ outcome' = "error"
    /\ UNCHANGED <<pc, handshake, sent, rx, rxCount, piece_size, nblocks, block_idx,
                   block_size, all_blocks, output>>

\* a failed assert!, expect or index: main panics
Panic == outcome' = "panic"

\* main.rs 147-151: read and parse the torrent file, check the piece index
ReadTorrent ==
    /\ pc = "start" /\ outcome = "running"
    /\ \/ MayFail /\ ReturnErr
       \/ /\ IF piece_index < Len(torrent.pieces)
             THEN pc' = "tracker" /\ outcome' = outcome
             ELSE Panic /\ pc' = pc
          /\ UNCHANGED <<handshake, sent, rx, rxCount, piece_size, nblocks, block_idx,
                         block_size, all_blocks, output>>
    /\ UNCHANGED <<env, torrent, piece_index, framerVars, benVars, encVars, rtVars>>

\* main.rs 152-154: ask the tracker, take the first peer of its list
GetTrackerInfo ==
    /\ pc = "tracker" /\ outcome = "running"
    /\ \/ MayFail /\ ReturnErr
       \/ /\ \E npeers \in (IF env = "honest" THEN {1} ELSE {0, 1}) :
                IF 0 < npeers
                THEN pc' = "handshake" /\ outcome' = outcome
                ELSE Panic /\ pc' = pc
          /\ UNCHANGED <<handshake, sent, rx, rxCount, piece_size, nblocks, block_idx,
                         block_size, all_blocks, output>>
    /\ UNCHANGED <<env, torrent, piece_index, framerVars, benVars, encVars, rtVars>>

\* main.rs 156-158: the three checks on the handshake read back
\* mutant: the info-hash read back is not compared
HandshakeOk_no_hash(h, t) ==
    /\ h.length = 19
    /\ h.bittorrent = "BitTorrent protocol"
HandshakeOk(h, t) ==
    /\ h.length = 19
    /\ h.bittorrent = "BitTorrent protocol"
    /\ h.info_hash = info_hash(t)

\* main.rs 155-158 and 69-90: connect, write the handshake, read 68 bytes
\* back over it, check them
MakeHandshake ==
    /\ pc = "handshake" /\ outcome = "running"
    /\ \/ MayFail /\ ReturnErr
       \/ /\ \E h \in Handshakes(env, torrent) :
                /\ handshake' = h
                /\ IF HandshakeOk(h, torrent)
                   THEN pc' = "bitfield" /\ outcome' = outcome
                   ELSE Panic /\ pc' = pc
          /\ UNCHANGED <<sent, rx, rxCount, piece_size, nblocks, block_idx,
                         block_size, all_blocks, output>>
    /\ UNCHANGED <<env, torrent, piece_index, framerVars, benVars, encVars, rtVars>>

\* mutant: the tag of the first message is not compared
is_bitfield_any(tag) == TRUE

\* main.rs 168: `assert_eq!(bitfield_msg.tag, MessageTag::Bitfield)`
is_bitfield(tag) == tag = "Bitfield"

\* main.rs 161-168: the first message of the framed stream is the Bitfield
AwaitBitfield ==
    /\ pc = "bitfield" /\ outcome = "running"
    /\ \E r \in BitfieldReplies(env) :
          /\ rx' = r
          /\ rxCount' = rxCount + 1
          /\ CASE r.kind = "eof" -> Panic /\ pc' = pc
               [] r.kind = "err" -> outcome' = "error" /\ pc' = pc
               [] OTHER -> IF is_bitfield(r.tag)
                           THEN pc' = "interested" /\ outcome' = outcome
                           ELSE Panic /\ pc' = pc
    /\ UNCHANGED <<handshake, sent, piece_size, nblocks, block_idx, block_size,
                   all_blocks, output>>
    /\ UNCHANGED <<env, torrent, piece_index, framerVars, benVars, encVars, rtVars>>

\* main.rs 170-173: send Interested
SendInterested ==
    /\ pc = "interested" /\ outcome = "running"
    /\ \/ MayFail /\ ReturnErr
       \/ /\ sent' = Append(sent, Message("Interested", <<>>))
          /\ pc' = "unchoke"
          /\ UNCHANGED <<outcome, handshake, rx, rxCount, piece_size, nblocks, block_idx,
                         block_size, all_blocks, output>>
    /\ UNCHANGED <<env, torrent, piece_index, framerVars, benVars, encVars, rtVars>>

\* main.rs 183-192
\* mutant: the last piece takes the remainder even when it is zero
PieceSizeLast_rem(t) == keys_length(t) % t.plength
PieceSizeLast(t) ==
    LET rem == keys_length(t) % t.plength
    IN  IF rem = 0 THEN t.plength ELSE rem

\* mutant: every piece has the piece length
PieceSizeOf_all_full(t, index) == t.plength

PieceSizeOf(t, index) ==
    IF index = Len(t.pieces) - 1 THEN PieceSizeLast(t) ELSE t.plength

\* main.rs 195
\* mutant: the number of blocks is rounded down
NBlocks_round_down(size) == size \div PIECE_BLOCK_MAX
NBlocks(size) == (size + (PIECE_BLOCK_MAX - 1)) \div PIECE_BLOCK_MAX

\* mutant: the last block takes the remainder even when it is zero
BlockSizeOf_rem(idx, n, size) ==
    IF idx = n - 1 THEN size % PIECE_BLOCK_MAX ELSE PIECE_BLOCK_MAX

\* main.rs 199-208
BlockSizeOf(idx, n, size) ==
    IF idx = n - 1
    THEN LET rem == size % PIECE_BLOCK_MAX
         IN  IF rem = 0 THEN PIECE_BLOCK_MAX ELSE rem
    ELSE PIECE_BLOCK_MAX

\* mutant: the payload of the Unchoke is not looked at
unchoke_any_payload(r) == r.tag = "Unchoke"

\* main.rs 180-181: `assert_eq!(unchoke_msg.tag, MessageTag::Unchoke)` and
\* `assert!(unchoke_msg.payload.is_empty())`
unchoke_ok(r) == r.tag = "Unchoke" /\ r.payload = <<>>

\* main.rs 175-198: the second message is an Unchoke with no payload; then
\* the size of the piece, the empty buffer and the number of blocks
AwaitUnchoke ==
    /\ pc = "unchoke" /\ outcome = "running"
    /\ \E r \in UnchokeReplies(env) :
          /\ rx' = r
          /\ rxCount' = rxCount + 1
          /\ CASE r.kind = "eof" -> Panic /\ pc' = pc /\ UNCHANGED <<piece_size, nblocks>>
               [] r.kind = "err" ->
                     outcome' = "error" /\ pc' = pc /\ UNCHANGED <<piece_size, nblocks>>
               [] OTHER ->
                     IF ~unchoke_ok(r)
                     THEN Panic /\ pc' = pc /\ UNCHANGED <<piece_size, nblocks>>
                     ELSE IF piece_index = Len(torrent.pieces) - 1 /\ torrent.plength = 0
                     THEN \* the remainder of a division by zero
                          Panic /\ pc' = pc /\ UNCHANGED <<piece_size, nblocks>>
                     ELSE /\ piece_size' = PieceSizeOf(torrent, piece_index)
                          /\ nblocks' = NBlocks(piece_size')
                          /\ pc' = IF 0 < nblocks' THEN "request" ELSE "verify"
                          /\ outcome' = outcome
    /\ UNCHANGED <<handshake, sent, block_idx, block_size, all_blocks, output>>
    /\ UNCHANGED <<env, torrent, piece_index, framerVars, benVars, encVars, rtVars>>

\* mutant: every Request asks for the start of the piece
begin_of_start(idx) == 0

\* main.rs 213: `(block_idx * PIECE_BLOCK_MAX) as u32`
begin_of(idx) == idx * PIECE_BLOCK_MAX

\* main.rs 199-222: the size of the block, the Request for it
SendRequest ==
    /\ pc = "request" /\ outcome = "running"
    /\ \/ MayFail /\ ReturnErr
       \/ /\ block_size' = BlockSizeOf(block_idx, nblocks, piece_size)
          /\ sent' = Append(sent,
                Message("Request",
                        MessageRequest(piece_index, begin_of(block_idx), block_size')))
          /\ pc' = "piece"
          /\ UNCHANGED <<outcome, handshake, rx, rxCount, piece_size, nblocks, block_idx,
                         all_blocks, output>>
    /\ UNCHANGED <<env, torrent, piece_index, framerVars, benVars, encVars, rtVars>>

\* main.rs 236, 237, 238-243
index_matches(index, wanted) == index = wanted
\* mutant: the begin of the Piece is not compared
begin_unchecked(begin, idx) == TRUE
begin_matches(begin, idx) == begin = idx * PIECE_BLOCK_MAX
\* mutant: the length of the block is not compared
block_len_unchecked(len, size) == TRUE
block_len_matches(len, size) == len = size

\* mutant: the tag of the message is not compared
PieceAccepted_any_tag(r) ==
    /\ r.payload # <<>>
    /\ BsLen[r.payload] >= 8
    /\ index_matches(msg_piece_index(r.payload), piece_index)
    /\ begin_matches(msg_piece_begin(r.payload), block_idx)
    /\ block_len_matches(BsLen[msg_piece_block(r.payload)], block_size)

\* main.rs 229-243: the asserts on the message received for a Request; a
\* payload shorter than eight bytes fails the subtraction or the slice
PieceAccepted(r) ==
    /\ r.tag = "Piece"
    /\ r.payload # <<>>
    /\ BsLen[r.payload] >= 8
    /\ index_matches(msg_piece_index(r.payload), piece_index)
    /\ begin_matches(msg_piece_begin(r.payload), block_idx)
    /\ block_len_matches(BsLen[msg_piece_block(r.payload)], block_size)

\* main.rs 224-254: the Piece of the Request, checked and appended
AwaitPiece ==
    /\ pc = "piece" /\ outcome = "running"
    /\ \E r \in PieceReplies(env, torrent, sent[Len(sent)].payload) :
          /\ rx' = r
          /\ rxCount' = rxCount + 1
          /\ CASE r.kind = "eof" -> Panic /\ pc' = pc /\ UNCHANGED <<block_idx, all_blocks>>
               [] r.kind = "err" ->
                     outcome' = "error" /\ pc' = pc /\ UNCHANGED <<block_idx, all_blocks>>
               [] OTHER ->
                     IF PieceAccepted(r)
                     THEN /\ all_blocks' = BsCat[all_blocks, msg_piece_block(r.payload)]
                          /\ block_idx' = block_idx + 1
                          /\ pc' = IF block_idx' < nblocks THEN "request" ELSE "verify"
                          /\ outcome' = outcome
                     ELSE Panic /\ pc' = pc /\ UNCHANGED <<block_idx, all_blocks>>
    /\ UNCHANGED <<handshake, sent, piece_size, nblocks, block_size, output>>
    /\ UNCHANGED <<env, torrent, piece_index, framerVars, benVars, encVars, rtVars>>

\* main.rs 265
\* mutant: the digest is not compared
hash_unchecked(hash, expected) == TRUE
hash_matches(hash, expected) == hash = expected

\* main.rs 255-267: the length and the SHA-1 of the buffer, the directory
Verify ==
    /\ pc = "verify" /\ outcome = "running"
    /\ IF BsLen[all_blocks] # piece_size
       THEN Panic /\ pc' = pc
       ELSE IF ~hash_matches(Sha1[all_blocks], torrent.pieces[piece_index + 1])
       THEN Panic /\ pc' = pc
       ELSE \/ MayFail /\ outcome' = "error" /\ pc' = pc
            \/ pc' = "write" /\ outcome' = outcome
    /\ UNCHANGED <<handshake, sent, rx, rxCount, piece_size, nblocks, block_idx,
                   block_size, all_blocks, output>>
    /\ UNCHANGED <<env, torrent, piece_index, framerVars, benVars, encVars, rtVars>>

\* main.rs 269-272: the buffer is written to the output file; a write that
\* fails leaves no file or a file cut short
WriteOut ==
    /\ pc = "write" /\ outcome = "running"
    /\ \/ /\ MayFail
          /\ outcome' = "error"
          /\ pc' = pc
          /\ output' \in {NoOutput, Written(<<>>)}
       \/ /\ output' = Written(all_blocks)
          /\ outcome' = "complete"
          /\ pc' = "done"
    /\ UNCHANGED <<handshake, sent, rx, rxCount, piece_size, nblocks, block_idx,
                   block_size, all_blocks>>
    /\ UNCHANGED <<env, torrent, piece_index, framerVars, benVars, encVars, rtVars>>

NextDownload ==
    \/ ReadTorrent
    \/ GetTrackerInfo
    \/ MakeHandshake
    \/ AwaitBitfield
    \/ SendInterested
    \/ AwaitUnchoke
    \/ SendRequest
    \/ AwaitPiece
    \/ Verify
    \/ WriteOut

SpecDownload == InitDownload /\ [][NextDownload]_vars

\* the runtime keeps polling main, and the peer of a good run keeps answering
SpecDownloadFair == InitDownload /\ [][NextDownload]_vars /\ WF_vars(NextDownload)

----------------------------------------------------------------------------
(* Claims on the download session *)

\* piece_size has been computed
PieceSizeKnown == pc \in {"request", "piece", "verify", "write", "done"}

\* C9: the size of the piece to download is the piece length for every piece
\* index but the last; for the last index it is the total length modulo the
\* piece length, or the piece length when that remainder is zero, and never 0.
\* A 1000-byte content in pieces of 256 has sizes 256, 256, 256, 232, and the
\* piece of index 1 of a 512-byte content in pieces of 256 has size 256.
C9_PieceSize ==
    PieceSizeKnown =>
        /\ piece_index # Len(torrent.pieces) - 1 => piece_size = torrent.plength
        /\ piece_index = Len(torrent.pieces) - 1 =>
              /\ piece_size = (IF torrent.length % torrent.plength = 0
                               THEN torrent.plength
                               ELSE torrent.length % torrent.plength)
              /\ piece_size # 0
        /\ (torrent.length = 1000 /\ torrent.plength = 256 /\ Len(torrent.pieces) = 4)
              => piece_size = <<256, 256, 256, 232>>[piece_index + 1]
        /\ (torrent.length = 512 /\ torrent.plength = 256 /\ piece_index = 1)
              => piece_size = 256

C9_Witness ==
    /\ PieceSizeKnown
    /\ torrent.length = 512 /\ torrent.plength = 256
    /\ piece_index = 1 /\ piece_index = Len(torrent.pieces) - 1
    /\ piece_size = 256

\* a peer-wire message has been read or sent, or the first one is awaited
PeerWireTouched ==
    \/ sent # <<>>
    \/ rxCount > 0
    \/ pc \in {"bitfield", "interested", "unchoke", "request", "piece", "verify",
               "write", "done"}

\* C4: no peer-wire message is awaited, read or sent unless the handshake
\* read back has length 19, the protocol name "BitTorrent protocol" and the
\* info-hash computed from the torrent; a peer that returns another info-hash
\* fails the check, and no block is ever requested from it.
C4_HandshakeGate ==
    /\ PeerWireTouched =>
          /\ handshake.length = 19
          /\ handshake.bittorrent = "BitTorrent protocol"
          /\ handshake.info_hash = info_hash(torrent)
    /\ (handshake # NoHandshake /\ handshake.info_hash # info_hash(torrent)) =>
          /\ outcome = "panic"
          /\ sent = <<>>
          /\ rxCount = 0

C4_Witness ==
    /\ handshake.length = 19
    /\ handshake.bittorrent = "BitTorrent protocol"
    /\ handshake.info_hash # info_hash(torrent)
    /\ pc = "handshake" /\ outcome = "panic"
    /\ sent = <<>>

\* C5: bytes are written to the output only when every block of the piece has
\* been received and the SHA-1 of the whole buffer is the piece hash at the
\* piece index; the bytes of a completed session are the buffer; a session
\* that aborts before the write, on a hash mismatch or on an error of the
\* bitfield, unchoke or block steps, has written nothing.
C5_VerifiedBeforeWrite ==
    /\ output.written =>
          /\ pc \in {"write", "done"}
          /\ block_idx = nblocks
          /\ rxCount = nblocks + 2
          /\ BsLen[all_blocks] = piece_size
          /\ Sha1[all_blocks] = torrent.pieces[piece_index + 1]
    /\ outcome = "complete" => output = Written(all_blocks)
    /\ (outcome \in {"panic", "error"} /\ pc # "write") => output = NoOutput

C5_Witness ==
    /\ env = "any"
    /\ outcome = "complete"
    /\ output.written
    /\ nblocks >= 2
    /\ BsLen[output.bytes] = piece_size

\* the payload of the Request the session is waiting on the answer of
LastRequest == sent[Len(sent)].payload

\* a Piece whose index, begin or block length is not the requested one
Mismatched(r) ==
    /\ r.kind = "msg" /\ r.tag = "Piece" /\ BsLen[r.payload] >= 8
    /\ \/ msg_piece_index(r.payload) # request_index(LastRequest)
       \/ msg_piece_begin(r.payload) # request_begin(LastRequest)
       \/ BsLen[r.payload] - 8 # request_length(LastRequest)

\* C3: in the block loop, a Piece with another index than the requested one,
\* another begin or another block length aborts the session: its bytes are not
\* appended to the buffer, and once aborted the session sends no Request and
\* writes nothing.
C3_MismatchAborts ==
    [][ /\ (pc = "piece" /\ outcome = "running" /\ rxCount' = rxCount + 1 /\ Mismatched(rx'))
           => /\ outcome' = "panic"
              /\ all_blocks' = all_blocks
              /\ sent' = sent
              /\ output' = NoOutput
        /\ outcome \in {"panic", "error"}
           => /\ sent' = sent
              /\ all_blocks' = all_blocks
              /\ output' = output ]_vars

C3_Witness ==
    /\ pc = "piece" /\ outcome = "panic"
    /\ block_idx >= 1
    /\ rx.kind = "msg" /\ rx.tag = "Piece" /\ BsLen[rx.payload] >= 8
    /\ msg_piece_index(rx.payload) = piece_index
    /\ msg_piece_begin(rx.payload) # request_begin(LastRequest)
    /\ BsLen[rx.payload] - 8 = request_length(LastRequest)
    /\ BsLen[all_blocks] = block_idx * PIECE_BLOCK_MAX
    /\ output = NoOutput

RequestsSent == Cardinality({ i \in 1..Len(sent) : sent[i].tag = "Request" })

\* the number of bytes of the target piece in the content
TargetSize == TruePieceSize(torrent.length, torrent.plength, piece_index)

Complete ==
    /\ outcome = "complete"
    /\ piece_size = TargetSize
    /\ RequestsSent = CeilDiv(piece_size, 16384)
    /\ output.written
    /\ Sha1[output.bytes] = torrent.pieces[piece_index + 1]

\* C2: with a peer that completes a valid handshake, sends Bitfield first, an
\* empty Unchoke after Interested, and answers every Request with the
\* requested index, begin and number of bytes of the true content, the
\* session eventually ends Complete, having sent exactly
\* ceil(piece_size / 16384) Requests and handed the writer bytes whose SHA-1
\* is the piece hash at the piece index; it never aborts on the way, and
\* never sends more Requests than that.
C2_HonestPeerCompletes ==
    /\ [](env = "honest" =>
            /\ outcome \in {"running", "complete"}
            /\ RequestsSent <= CeilDiv(TargetSize, 16384))
    /\ (env = "honest") ~> Complete

C2_Witness ==
    /\ env = "honest"
    /\ Complete
    /\ RequestsSent = 4
    /\ block_size < PIECE_BLOCK_MAX

\* the handshake read back fails one of the three checks
HandshakeViolation ==
    /\ handshake # NoHandshake
    /\ \/ handshake.length # 19
       \/ handshake.bittorrent # "BitTorrent protocol"
       \/ handshake.info_hash # info_hash(torrent)

\* the first message read is not a Bitfield
BitfieldViolation ==
    pc = "bitfield" /\ rxCount = 1 /\ rx.kind = "msg" /\ rx.tag # "Bitfield"

\* the second message read is not an Unchoke with no payload
UnchokeViolation ==
    /\ pc = "unchoke" /\ rxCount = 2 /\ rx.kind = "msg"
    /\ rx.tag # "Unchoke" \/ rx.payload # <<>>

\* the message read for a Request is not a Piece, or not the Piece asked for
PieceViolation ==
    /\ pc = "piece" /\ rxCount = 3 + block_idx /\ rx.kind = "msg"
    /\ rx.tag # "Piece" \/ Mismatched(rx)

\* the digest of the assembled piece has been found not to be the piece hash
HashViolation ==
    /\ pc = "verify" /\ outcome # "running"
    /\ BsLen[all_blocks] = piece_size
    /\ Sha1[all_blocks] # torrent.pieces[piece_index + 1]

\* C15: every protocol violation (an unexpected tag or order, a handshake
\* field mismatch, a request/response field mismatch) and every integrity
\* failure (the SHA-1 of the piece) ends the download with an error result
\* returned to the caller: no retry, no report of success, nothing written.
C15_ViolationsReturnErr ==
    (HandshakeViolation \/ BitfieldViolation \/ UnchokeViolation \/ PieceViolation
        \/ HashViolation) =>
        /\ outcome = "error"
        /\ output = NoOutput

\* the positions of the Requests among the messages sent
RequestPositions == { i \in 1..Len(sent) : sent[i].tag = "Request" }

\* the number of bytes the Requests sent so far ask for
RECURSIVE RequestedBytes(_)
RequestedBytes(ms) ==
    IF ms = <<>> THEN 0
    ELSE (IF Head(ms).tag = "Request" THEN request_length(Head(ms).payload) ELSE 0)
         + RequestedBytes(Tail(ms))

\* C19: the block loop is sequential.  The Requests are sent in increasing
\* begin offset 0, 16384, 32768, ...; at most one Request is outstanding at
\* any time, and only while its Piece is awaited; and the Request for the
\* next block is sent only when the Piece of every earlier Request has been
\* received, checked and appended to the buffer.
C19_OneRequestAtATime ==
    /\ [](pc # "idle" =>
            /\ \A i \in RequestPositions :
                  request_begin(sent[i].payload)
                      = Cardinality({ j \in RequestPositions : j < i }) * 16384
            /\ RequestsSent - block_idx \in {0, 1}
            /\ RequestsSent = block_idx + 1 => pc = "piece")
    /\ [][RequestsSent' > RequestsSent =>
            /\ RequestsSent' = RequestsSent + 1
            /\ RequestsSent = block_idx
            /\ rxCount = 2 + RequestsSent
            /\ BsLen[all_blocks] = RequestedBytes(sent)]_vars

\* two blocks are in the buffer and the third Request is out
C19_Witness ==
    /\ pc = "piece" /\ outcome = "running"
    /\ RequestsSent = 3
    /\ block_idx = 2
    /\ BsLen[all_blocks] = 2 * 16384
    /\ request_begin(LastRequest) = 32768

\* C20: the first message decoded from the peer after the handshake must be
\* a Bitfield.  With any other tag, with the end of the stream or with a
\* decode error in its place, the session aborts and sends neither Interested
\* nor a Request; with a Bitfield it goes on whatever the payload holds.
C20_BitfieldFirst ==
    /\ [](/\ sent # <<>> => rxCount >= 1
          /\ (pc = "bitfield" /\ rxCount = 1) =>
                (outcome \in {"panic", "error"} /\ sent = <<>>))
    /\ [][/\ (rxCount = 0 /\ rxCount' = 1) =>
                IF rx'.kind = "msg" /\ rx'.tag = "Bitfield"
                THEN outcome' = "running" /\ pc' = "interested"
                ELSE outcome' \in {"panic", "error"} /\ pc' = "bitfield" /\ sent' = <<>>
          /\ outcome \in {"panic", "error"} => sent' = sent]_vars

\* an Unchoke came first: the session has stopped with nothing sent
C20_Witness ==
    /\ pc = "bitfield" /\ rxCount = 1
    /\ rx.kind = "msg" /\ rx.tag = "Unchoke"
    /\ outcome = "panic"
    /\ sent = <<>>

\* the messages of a given tag sent so far
SentWithTag(tag) == { i \in 1..Len(sent) : sent[i].tag = tag }

\* C21: after the Bitfield the session sends one Interested with an empty
\* payload, and no Request before the next message received is an Unchoke
\* with an empty payload; any other message in that place aborts the session
\* with no Request sent.
C21_InterestedThenUnchoke ==
    /\ [](/\ Cardinality(SentWithTag("Interested")) <= 1
          /\ pc \in {"unchoke", "request", "piece", "verify", "write", "done"} =>
                (sent # <<>> /\ sent[1] = Message("Interested", <<>>))
          /\ SentWithTag("Request") # {} => rxCount >= 2
          /\ pc = "unchoke" => SentWithTag("Request") = {})
    /\ [][/\ (pc = "interested" /\ sent' # sent) =>
                (rxCount = 1 /\ rx.tag = "Bitfield"
                   /\ sent' = <<Message("Interested", <<>>)>>)
          /\ (rxCount = 1 /\ rxCount' = 2) =>
                IF rx'.kind = "msg" /\ rx'.tag = "Unchoke" /\ rx'.payload = <<>>
                THEN outcome' = "running" => pc' \in {"request", "verify"}
                ELSE outcome' \in {"panic", "error"} /\ pc' = "unchoke"
          /\ (pc = "unchoke" /\ outcome \in {"panic", "error"}) => sent' = sent]_vars

\* an Unchoke with a payload came second: the session has stopped after the
\* Interested, with no Request
C21_Witness ==
    /\ pc = "unchoke" /\ rxCount = 2
    /\ rx.kind = "msg" /\ rx.tag = "Unchoke" /\ rx.payload # <<>>
    /\ outcome = "panic"
    /\ sent = <<Message("Interested", <<>>)>>

\* the big-endian number in the four bytes of p from position a
BigEndianAt(p, a) == ((p[a] * 256 + p[a + 1]) * 256 + p[a + 2]) * 256 + p[a + 3]

\* the length the Request of block k of a piece of size bytes is to carry
ExpectedLength(k, size) ==
    IF k = CeilDiv(size, 16384) - 1
    THEN (IF size % 16384 = 0 THEN 16384 ELSE size % 16384)
    ELSE 16384

\* C22: for a piece of piece_size > 0 bytes the session issues
\* ceil(piece_size / 16384) Requests.  The Request of block k has a payload
\* of twelve bytes, three big-endian numbers: the index of the target piece,
\* k * 16384, and a length of 16384 for every block but the last, whose
\* length is piece_size mod 16384, or 16384 when that is zero.  The lengths
\* add up to piece_size.
C22_RequestSizes ==
    (PieceSizeKnown /\ piece_size > 0) =>
        /\ \A i \in RequestPositions :
              LET k == Cardinality({ j \in RequestPositions : j < i })
                  p == sent[i].payload
              IN  /\ k < CeilDiv(piece_size, 16384)
                  /\ Len(p) = 12
                  /\ \A j \in 1..12 : p[j] \in 0..255
                  /\ BigEndianAt(p, 1) = piece_index
                  /\ BigEndianAt(p, 5) = k * 16384
                  /\ BigEndianAt(p, 9) = ExpectedLength(k, piece_size)
        /\ pc \in {"verify", "write", "done"} =>
              /\ RequestsSent = CeilDiv(piece_size, 16384)
              /\ RequestedBytes(sent) = piece_size

\* the two Requests of a piece of two whole blocks have been sent
C22_Witness ==
    /\ pc = "verify"
    /\ piece_size = 32768
    /\ RequestsSent = 2
    /\ BigEndianAt(sent[Len(sent)].payload, 9) = 16384

\* C23: the payload of a Piece that is accepted is read as the big-endian
\* index in its bytes 0..4, the big-endian begin in its bytes 4..8 and the
\* block in all the bytes after them: the block compared with the requested
\* length and appended to the buffer has the length of the payload minus 8
\* and the content payload[8..].
C23_PieceDecomposed ==
    [][(pc = "piece" /\ pc' \in {"request", "verify"}) =>
          LET p    == rx'.payload
              head == Bytes[BsTake[p, 8]]
          IN  /\ rx'.tag = "Piece"
              /\ BsLen[p] >= 8
              /\ BigEndianAt(head, 1) = piece_index
              /\ BigEndianAt(head, 5) = block_idx * 16384
              /\ BsLen[p] - 8 = block_size
              /\ all_blocks' = BsCat[all_blocks, BsDrop[p, 8]]
              /\ BsLen[all_blocks'] = BsLen[all_blocks] + BsLen[p] - 8]_vars

\* the second block of a piece has been taken from a payload of 16392 bytes
C23_Witness ==
    /\ pc = "request" /\ block_idx = 2
    /\ rx.tag = "Piece"
    /\ BsLen[rx.payload] = 16392
    /\ BigEndianAt(Bytes[BsTake[rx.payload, 8]], 5) = 16384
    /\ BsLen[all_blocks] = 32768

----------------------------------------------------------------------------
(* Specification RoundTrip: messages are encoded into a buffer, and decode *)
(* is called on that buffer                                                *)

\* a payload of n bytes
PayloadOf(n) == [i \in 1..n |-> 1]

\* short messages of every tag, one of them with the bytes of a keep-alive
\* as its payload
SmallItems ==
    { [tag |-> MessageTag[t], payload |-> <<>>] : t \in DOMAIN MessageTag }
    \cup { [tag |-> tg, payload |-> to_be_bytes(0)] : tg \in {"Have", "Piece"} }

\* a message of exactly the size decode accepts, and one a byte longer
LargeItems ==
    { [tag |-> "Piece", payload |-> PayloadOf(DecodeMAX - 1)],
      [tag |-> "Piece", payload |-> PayloadOf(DecodeMAX)] }

\* what is given to the sink: a few messages, at most one of them large
RoundTripInputs ==
    { ms \in UNION { [1..n -> SmallItems \cup LargeItems] : n \in 0..MaxMessages } :
        Cardinality({ i \in DOMAIN ms : ms[i] \in LargeItems }) <= 1 }

InitRoundTrip ==
    /\ IdleFramer
    /\ IdleBencode
    /\ IdleDownload
    /\ IdleEncode
    /\ rtItems \in RoundTripInputs
    /\ rtEncoded = 0
    /\ rtBuf = <<>>
    /\ rtOut = <<>>
    /\ rtRes = "open"

\* peer.rs 216-240: the next message is encoded at the end of the buffer
EncodeItem ==
    /\ rtRes = "open"
    /\ rtEncoded < Len(rtItems)
    /\ LET item == rtItems[rtEncoded + 1]
       IN  IF EncodeTooLarge(MessageLen(item))
           THEN rtRes' = "err" /\ UNCHANGED <<rtBuf, rtEncoded>>
           ELSE /\ rtBuf' = rtBuf \o encode(item)
                /\ rtEncoded' = rtEncoded + 1
                /\ rtRes' = rtRes
    /\ UNCHANGED <<rtItems, rtOut>>
    /\ UNCHANGED <<framerVars, benVars, dlVars, encVars>>

\* peer.rs 148-210: one call of decode on the buffer
DecodeItem ==
    /\ rtRes = "open"
    /\ LET r == decode(rtBuf)
       IN  /\ rtBuf' = r.src
           /\ rtOut' = IF r.res = "msg" THEN Append(rtOut, r.msg) ELSE rtOut
           /\ rtRes' = CASE r.res = "err" -> "err"
                         [] r.res = "none" /\ rtEncoded = Len(rtItems) -> "drained"
                         [] OTHER -> rtRes
    /\ UNCHANGED <<rtItems, rtEncoded>>
    /\ UNCHANGED <<framerVars, benVars, dlVars, encVars>>

NextRoundTrip == EncodeItem \/ DecodeItem

SpecRoundTrip == InitRoundTrip /\ [][NextRoundTrip]_vars

\* every message given to the sink has at most 65536 bytes of tag and payload
AllFit == \A i \in DOMAIN rtItems : 1 + Len(rtItems[i].payload) <= 65536

\* C24: when every message has at most 65536 bytes of tag and payload,
\* decode on the bytes encode produced returns the messages with the same tag
\* and the same payload, in the order they were encoded, and leaves the
\* buffer empty.
C24_EncodeDecodeRoundTrip ==
    (rtRes # "idle" /\ AllFit) =>
        /\ rtRes # "err"
        /\ Len(rtOut) <= rtEncoded
        /\ \A i \in DOMAIN rtOut :
              /\ rtOut[i].tag = rtItems[i].tag
              /\ rtOut[i].payload = rtItems[i].payload
        /\ rtRes = "drained" => (rtOut = rtItems /\ rtBuf = <<>>)

\* two messages have come back in the order they were encoded in, the first
\* of them a Piece whose payload is four zero bytes
C24_Witness ==
    /\ rtRes = "drained"
    /\ Len(rtItems) = 2
    /\ rtItems[1] = [tag |-> "Piece", payload |-> <<0, 0, 0, 0>>]
    /\ rtItems[2].tag = "Cancel"
    /\ rtOut = rtItems
    /\ rtBuf = <<>>

\* C25: in the block loop the length of the buffer is 16384 times the number
\* of blocks accepted so far, which is the begin of the next Request to be
\* sent; the buffer never holds more than piece_size bytes, and it holds
\* piece_size bytes exactly when the loop has finished, before the hash is
\* computed.
C25_BufferLength ==
    /\ [](/\ pc \in {"request", "piece"} =>
                /\ BsLen[all_blocks] = block_idx * 16384
                /\ BsLen[all_blocks] < piece_size
          /\ pc = "piece" =>
                BigEndianAt(sent[Len(sent)].payload, 5) = BsLen[all_blocks]
          /\ BsLen[all_blocks] <= piece_size
          /\ pc \in {"verify", "write", "done"} => BsLen[all_blocks] = piece_size
          /\ (PieceSizeKnown /\ BsLen[all_blocks] = piece_size) =>
                pc \in {"verify", "write", "done"})
    /\ [][RequestsSent' > RequestsSent =>
            BigEndianAt(sent'[Len(sent')].payload, 5) = BsLen[all_blocks]]_vars

\* the last Request of a piece of four blocks is out, at the offset 49152
\* that the three blocks in the buffer add up to
C25_Witness ==
    /\ pc = "piece" /\ block_idx = 3
    /\ piece_size = 50000
    /\ BsLen[all_blocks] = 49152
    /\ BigEndianAt(sent[Len(sent)].payload, 5) = 49152

\* the sizes computed for the pieces 0..n-1 of t, added up
RECURSIVE SumPieceSizes(_, _)
SumPieceSizes(t, n) ==
    IF n = 0 THEN 0 ELSE PieceSizeOf(t, n - 1) + SumPieceSizes(t, n - 1)

\* the torrent has a piece length and one hash for every piece of its content
HashesFitLength ==
    /\ pc # "idle"
    /\ torrent.plength > 0
    /\ Len(torrent.pieces) = CeilDiv(torrent.length, torrent.plength)

\* C26: when the piece length is positive and there are
\* ceil(total_length / piece_length) piece hashes, the sizes computed for the
\* piece indices 0..n-1 add up to the total length, and each of them is at
\* least 1 and at most the piece length.
C26_PieceSizesSum ==
    HashesFitLength =>
        /\ SumPieceSizes(torrent, Len(torrent.pieces)) = torrent.length
        /\ \A i \in 0..(Len(torrent.pieces) - 1) :
              PieceSizeOf(torrent, i) \in 1..torrent.plength
        /\ PieceSizeKnown =>
              /\ piece_size = PieceSizeOf(torrent, piece_index)
              /\ piece_size \in 1..torrent.plength

\* the size of the last of three pieces has been computed, a short one
C26_Witness ==
    /\ HashesFitLength
    /\ PieceSizeKnown
    /\ Len(torrent.pieces) = 3
    /\ piece_index = 2
    /\ piece_size < torrent.plength

\* the message is not a Piece with the eight bytes of index and begin
Malformed(r) ==
    /\ r.kind = "msg"
    /\ \/ r.tag # "Piece"
       \/ r.payload = <<>>
       \/ BsLen[r.payload] < 8

\* C27: while the answer to a Request is awaited, a message that is not a
\* well-formed Piece (another tag such as Choke or Have, an empty payload, a
\* Piece payload shorter than the 8 bytes of index and begin) aborts the
\* download: no byte is appended to the buffer, no other Request is sent,
\* nothing is written.
C27_MalformedPieceAborts ==
    /\ []((pc = "piece" /\ outcome # "running" /\ Malformed(rx)) =>
              /\ outcome \in {"panic", "error"}
              /\ BsLen[all_blocks] = block_idx * 16384
              /\ RequestsSent = block_idx + 1
              /\ output = NoOutput)
    /\ [][/\ (pc = "piece" /\ rxCount' = rxCount + 1 /\ Malformed(rx')) =>
                /\ outcome' \in {"panic", "error"}
                /\ pc' = "piece"
                /\ all_blocks' = all_blocks
                /\ sent' = sent
          /\ (pc = "piece" /\ outcome \in {"panic", "error"}) =>
                (sent' = sent /\ all_blocks' = all_blocks /\ output' = output)]_vars

\* a Piece of seven bytes came for the second Request: the session has
\* stopped with the first block alone in the buffer
C27_Witness ==
    /\ pc = "piece" /\ outcome = "panic"
    /\ rx.tag = "Piece"
    /\ BsLen[rx.payload] = 7
    /\ block_idx = 1
    /\ BsLen[all_blocks] = 16384
    /\ RequestsSent = 2

\* C28: decode_cmd is total.  On every input string, the empty, the
\* truncated, the malformed and the non-ASCII ones included, it returns a
\* decoded value or an error and never crashes; and a successful decode of a
\* value consumes at least one byte of its input.
C28_DecodeCmdTotal ==
    result.kind # "pending" =>
        /\ result.kind \in {"ok", "err"}
        /\ first.kind \in {"ok", "err"}
        /\ first.kind = "ok" => str_len(first.rest) < str_len(msg)

====
